---------------------------- MODULE Spec2Model ----------------------------
(***************************************************************************)
(* Model of no-circula-bot: the circulation engine of reglas_service.py    *)
(* (evaluar_circulacion) and the contingency resolver of                   *)
(* contingencia_service.py (verificar_contingencia, fase_a_nivel).         *)
(*                                                                         *)
(* Three specifications share the variables:                               *)
(*   SpecEvaluar      one call of evaluar_circulacion on inputs drawn from *)
(*                    bounded sets (valid and invalid ones);               *)
(*   SpecContingencia one run of verificar_contingencia over CAME_URLS,    *)
(*                    followed by fase_a_nivel;                            *)
(*   Spec             one run of main.main, which calls both.              *)
(***************************************************************************)
EXTENDS Integers, Sequences, FiniteSets, TLC

VARIABLES
    ultimo_digito,          \* evaluar_circulacion argument
    holograma,              \* evaluar_circulacion argument (a string)
    nivel_contingencia,     \* evaluar_circulacion argument / fase_a_nivel result
    fecha,                  \* evaluar_circulacion argument [year, month, day]
    resultado,              \* outcome of evaluar_circulacion
    pc,                     \* position of the running call
    url_idx,                \* verificar_contingencia: index into CAME_URLS
    errores,                \* verificar_contingencia: errores list
    respuesta,              \* what requests.get did for the URL last fetched
    texto,                  \* text handed to _detectar_fase
    consultas,              \* history: the fetches made, <<url index, succeeded>>
    resultado_contingencia, \* dict returned by verificar_contingencia
    main_pc,                \* main: the statement to run next
    entorno,                \* the environment variables of the process
    config,                 \* main: dict returned by cargar_configuracion
    hoy,                    \* the calendar date of the run, date.today()
    traza                   \* history: the calls main made, in order

vars == <<ultimo_digito, holograma, nivel_contingencia, fecha, resultado, pc,
          url_idx, errores, respuesta, texto, consultas, resultado_contingencia,
          main_pc, entorno, config, hoy, traza>>

varsEvaluar == <<ultimo_digito, holograma, nivel_contingencia, fecha, resultado>>
varsContingencia == <<url_idx, errores, respuesta, texto, consultas,
                      resultado_contingencia>>
varsMain == <<main_pc, entorno, config, hoy, traza>>

\* Python's None, where a string, a page or an error message is expected
None == "None"
NoHtml == [tipo |-> "None"]
NoError == <<>>

(***************************************************************************)
(* Bounds of the model.                                                    *)
(***************************************************************************)
\* years of calendar dates drawn as inputs, starting with 2024
NumAnios == 1
\* how far outside 0..9 the digit inputs reach
DigitoFuera == 1
\* longest fetched page, in tokens
MaxHtml == 4
\* main runs on one of the first DiasDeHoy days of 2024
DiasDeHoy == 14

(***************************************************************************)
(* contingencia_service.NivelContingencia and reglas_service.Holograma     *)
(***************************************************************************)
NINGUNA == "ninguna"
FASE_1 == "fase_1"
FASE_2 == "fase_2"
NivelContingencia == {NINGUNA, FASE_1, FASE_2}

CERO_CERO == "00"
CERO == "0"
UNO == "1"
DOS == "2"
Holograma == {CERO_CERO, CERO, UNO, DOS}

\* list membership, Python's "x in lista"
En(x, lista) == \E i \in 1..Len(lista) : lista[i] = x

(***************************************************************************)
(* Rule tables                                                             *)
(***************************************************************************)
RESTRICCION_SEMANAL_lunes_martes ==
    (1 :> <<7, 8>>) @@ (2 :> <<5, 6>>) @@ (3 :> <<3, 4>>) @@ (4 :> <<1, 2>>)
        @@ (5 :> <<9, 0>>)

RESTRICCION_SEMANAL ==
    (1 :> <<5, 6>>) @@ (2 :> <<7, 8>>) @@ (3 :> <<3, 4>>) @@ (4 :> <<1, 2>>)
        @@ (5 :> <<9, 0>>)

SABADO_SEMANAS_IMPARES == <<5, 6, 7, 8>>
SABADO_SEMANAS_PARES == <<0, 1, 2, 3, 4, 9>>

FASE2_RESTRICCION_HOLOGRAMA_0_00_con_sabado ==
    (1 :> <<0, 1, 2, 3, 4>>) @@ (2 :> <<5, 6, 7, 8, 9>>)
        @@ (3 :> <<0, 1, 2, 3, 4>>) @@ (4 :> <<5, 6, 7, 8, 9>>)
        @@ (5 :> <<0, 1, 2, 3, 4>>) @@ (6 :> <<5, 6, 7, 8, 9>>)

FASE2_RESTRICCION_HOLOGRAMA_0_00 ==
    (1 :> <<0, 1, 2, 3, 4>>) @@ (2 :> <<5, 6, 7, 8, 9>>)
        @@ (3 :> <<0, 1, 2, 3, 4>>) @@ (4 :> <<5, 6, 7, 8, 9>>)
        @@ (5 :> <<0, 1, 2, 3, 4>>)

(***************************************************************************)
(* Calendar dates: datetime.date as [year, month, day], with isoweekday()  *)
(* computed from the proleptic Gregorian ordinal as datetime does.         *)
(***************************************************************************)
EsBisiesto(y) == (y % 4 = 0) /\ ((y % 100 # 0) \/ (y % 400 = 0))

DiasDelMes(y, m) ==
    IF m = 2 THEN (IF EsBisiesto(y) THEN 29 ELSE 28)
    ELSE IF m \in {4, 6, 9, 11} THEN 30 ELSE 31

RECURSIVE DiasAntesDelMes(_, _)
DiasAntesDelMes(y, m) ==
    IF m = 1 THEN 0 ELSE DiasAntesDelMes(y, m - 1) + DiasDelMes(y, m - 1)

toordinal(f) ==
    LET y == f.year - 1
    IN  y * 365 + (y \div 4) - (y \div 100) + (y \div 400)
            + DiasAntesDelMes(f.year, f.month) + f.day

isoweekday(f) == ((toordinal(f) + 6) % 7) + 1

Fechas ==
    {f \in [year : 2024..(2024 + NumAnios - 1), month : 1..12, day : 1..31] :
        f.day <= DiasDelMes(f.year, f.month)}

(***************************************************************************)
(* reglas_service._semana_del_mes, _digitos_restringidos_sabado            *)
(***************************************************************************)
_semana_del_mes_sin_restar(f) == (f.day \div 7) + 1

_semana_del_mes(f) == ((f.day - 1) \div 7) + 1

_digitos_restringidos_sabado(f) ==
    LET semana == _semana_del_mes(f)
    IN  IF semana % 2 # 0 THEN SABADO_SEMANAS_IMPARES ELSE SABADO_SEMANAS_PARES

NOMBRES_DIA ==
    (1 :> "lunes") @@ (2 :> "martes") @@ (3 :> "miercoles") @@ (4 :> "jueves")
        @@ (5 :> "viernes") @@ (6 :> "sabado") @@ (7 :> "domingo")


(***************************************************************************)
(* reglas_service.evaluar_circulacion                                      *)
(***************************************************************************)
\* Holograma(holograma) raises ValueError for any other string
HologramaValido(h) == h \in Holograma

DigitoValido_hasta_diez(d) == d \in 0..10

\* ultimo_digito in range(10)
DigitoValido(d) == d \in 0..9

RestriccionExentoFase2_en_fase1(d, nivel, dia_iso) ==
    /\ nivel = FASE_1
    /\ LET digitos_restringidos ==
               IF dia_iso \in DOMAIN FASE2_RESTRICCION_HOLOGRAMA_0_00
               THEN FASE2_RESTRICCION_HOLOGRAMA_0_00[dia_iso]
               ELSE <<>>
       IN  En(d, digitos_restringidos)

\* hologramas 0 and 00 under Fase 2: FASE2_RESTRICCION_HOLOGRAMA_0_00.get(dia_iso, [])
RestriccionExentoFase2(d, nivel, dia_iso) ==
    /\ nivel = FASE_2
    /\ LET digitos_restringidos ==
               IF dia_iso \in DOMAIN FASE2_RESTRICCION_HOLOGRAMA_0_00
               THEN FASE2_RESTRICCION_HOLOGRAMA_0_00[dia_iso]
               ELSE <<>>
       IN  En(d, digitos_restringidos)

RestriccionNormal_sabado_todos(d, h, f, dia_iso) ==
    \/ /\ dia_iso \in DOMAIN RESTRICCION_SEMANAL
       /\ En(d, RESTRICCION_SEMANAL[dia_iso])
    \/ /\ dia_iso = 6
       /\ En(d, _digitos_restringidos_sabado(f))

\* restriccion_normal of hologramas 1 and 2: weekly table, Saturday rotation
RestriccionNormal(d, h, f, dia_iso) ==
    \/ /\ dia_iso \in DOMAIN RESTRICCION_SEMANAL
       /\ En(d, RESTRICCION_SEMANAL[dia_iso])
    \/ /\ dia_iso = 6
       /\ h = DOS
       /\ En(d, _digitos_restringidos_sabado(f))

RestriccionContingencia_hasta_jueves(nivel, dia_iso, normal) ==
    LET fase2 == nivel = FASE_2 /\ dia_iso \in 1..4
    IN  IF nivel = FASE_1 THEN normal ELSE fase2

RestriccionContingencia_toda_la_semana(nivel, dia_iso, normal) ==
    LET fase2 == nivel = FASE_2 /\ dia_iso \in 1..7
    IN  IF nivel = FASE_1 THEN normal ELSE fase2

RestriccionContingencia_fase1_amplia(nivel, dia_iso, normal) ==
    LET fase2 == nivel \in {FASE_1, FASE_2} /\ dia_iso \in 1..5
    IN  fase2

\* restriccion_contingencia of hologramas 1 and 2: the Fase 2 assignment, then
\* the Fase 1 assignment that overwrites it with restriccion_normal
RestriccionContingencia(nivel, dia_iso, normal) ==
    LET fase2 == nivel = FASE_2 /\ dia_iso \in 1..5
    IN  IF nivel = FASE_1 THEN normal ELSE fase2

\* nivel_contingencia.value.replace('_', ' ').upper()
NivelEnTexto(nivel) ==
    CASE nivel = NINGUNA -> "NINGUNA"
      [] nivel = FASE_1 -> "FASE 1"
      [] nivel = FASE_2 -> "FASE 2"

CausaRegular == <<"programa Hoy No Circula regular">>
CausaContingencia(nivel) == <<"contingencia ambiental", NivelEnTexto(nivel)>>

\* razon of the restricted branch: the template and the causas joined into it
ComponerRazon(nivel, normal, contingencia) ==
    LET no_circula == normal \/ contingencia
        causas1 == IF normal THEN <<CausaRegular>> ELSE <<>>
        causas2 == IF contingencia /\ ~normal
                   THEN Append(causas1, CausaContingencia(nivel))
                   ELSE causas1
    IN  IF no_circula
        THEN [plantilla |-> "NO CIRCULA por", causas |-> causas2]
        ELSE [plantilla |-> "puede circular sin restricciones", causas |-> <<>>]

ResultadoCirculacion_nivel_fijo(puede, razon, normal, contingencia, nivel, dia, h, d) ==
    [tipo |-> "ResultadoCirculacion",
     puede_circular |-> puede,
     razon |-> razon,
     restriccion_normal |-> normal,
     restriccion_contingencia |-> contingencia,
     nivel_contingencia |-> NINGUNA,
     dia |-> dia,
     holograma |-> h,
     ultimo_digito |-> d]

ResultadoCirculacion(puede, razon, normal, contingencia, nivel, dia, h, d) ==
    [tipo |-> "ResultadoCirculacion",
     puede_circular |-> puede,
     razon |-> razon,
     restriccion_normal |-> normal,
     restriccion_contingencia |-> contingencia,
     nivel_contingencia |-> nivel,
     dia |-> dia,
     holograma |-> h,
     ultimo_digito |-> d]

evaluar_circulacion(d, h, nivel, f) ==
    IF ~HologramaValido(h)
    THEN [tipo |-> "ValueError", mensaje |-> "Holograma invalido"]
    ELSE IF ~DigitoValido(d)
    THEN [tipo |-> "ValueError", mensaje |-> "Ultimo digito debe ser entre 0 y 9"]
    ELSE
    LET dia_iso == isoweekday(f)
        nombre_dia_es == NOMBRES_DIA[dia_iso]
    IN  IF h \in {CERO_CERO, CERO}
        THEN IF RestriccionExentoFase2(d, nivel, dia_iso)
             THEN ResultadoCirculacion(FALSE,
                      [plantilla |-> "normalmente exento, pero en CONTINGENCIA FASE 2 no circulan",
                       causas |-> <<>>],
                      FALSE, TRUE, nivel, nombre_dia_es, h, d)
             ELSE ResultadoCirculacion(TRUE,
                      [plantilla |-> "esta exento del programa Hoy No Circula",
                       causas |-> <<>>],
                      FALSE, FALSE, nivel, nombre_dia_es, h, d)
        ELSE LET normal == RestriccionNormal(d, h, f, dia_iso)
                 contingencia == RestriccionContingencia(nivel, dia_iso, normal)
                 no_circula == normal \/ contingencia
             IN  ResultadoCirculacion(~no_circula,
                      ComponerRazon(nivel, normal, contingencia),
                      normal, contingencia, nivel, nombre_dia_es, h, d)

(***************************************************************************)
(* contingencia_service: fetched pages and the phase patterns.             *)
(*                                                                         *)
(* A text is a sequence of tokens: the words the patterns name, a blank,   *)
(* an "i" (two of them read "ii") and "x" for any other word character.    *)
(* Adjacent tokens are adjacent in the text: <<"fase", "2">> is "fase2".   *)
(* Texts are case-folded, as the patterns are compiled with IGNORECASE.    *)
(* A page is the text inside the tags _extraer_texto_limpio removes        *)
(* (script, style, head, ...) followed by the text it keeps.               *)
(***************************************************************************)
Token == {"fase", "contingencia", "ambiental", "1", "2", "i", " ", "x"}

\* the texts of exactly k tokens
Textos(k) == [1..k -> Token]

CAME_URLS ==
    <<"https://www.gob.mx/comisionambiental/acciones-y-programas/contingencias-ambientales-atmosfericas",
      "https://www.gob.mx/comisionambiental">>

\* requests.exceptions: each class with its base classes
Bases ==
    [Timeout |-> {"Timeout", "RequestException"},
     ConnectTimeout |-> {"ConnectTimeout", "ConnectionError", "Timeout",
                         "RequestException"},
     ConnectionError |-> {"ConnectionError", "RequestException"},
     TooManyRedirects |-> {"TooManyRedirects", "RequestException"}]

Excepciones == DOMAIN Bases
StatusCodes == {200, 204, 404}

\* what requests.get can do besides returning a page with status 200: raise,
\* or return another status.  The body of such a response is never read.
RespuestasFallidas ==
    {[tipo |-> "raise", clase |-> e] : e \in Excepciones}
        \cup {[tipo |-> "Response", status_code |-> c, text |-> NoHtml] :
                 c \in StatusCodes \ {200}}

\* a response with status 200 and a page of at most MaxHtml tokens
Respuesta200(script, visible) ==
    [tipo |-> "Response", status_code |-> 200,
     text |-> [script |-> script, visible |-> visible]]

_fetch_html_sin_except_general(url, r) ==
    IF r.tipo = "raise"
    THEN IF "Timeout" \in Bases[r.clase]
         THEN [html |-> NoHtml, error |-> <<"Timeout", url>>, excepcion |-> None]
         ELSE IF "ConnectionError" \in Bases[r.clase]
         THEN [html |-> NoHtml, error |-> <<"Error de conexion", url>>,
               excepcion |-> None]
         ELSE [html |-> NoHtml, error |-> NoError, excepcion |-> r.clase]
    ELSE IF r.status_code # 200
    THEN [html |-> NoHtml, error |-> <<"HTTP", r.status_code, url>>,
          excepcion |-> None]
    ELSE [html |-> r.text, error |-> NoError, excepcion |-> None]

\* (html, None) on success, (None, message) on failure; excepcion names an
\* exception no except clause catches
_fetch_html(url, r) ==
    IF r.tipo = "raise"
    THEN IF "Timeout" \in Bases[r.clase]
         THEN [html |-> NoHtml, error |-> <<"Timeout", url>>, excepcion |-> None]
         ELSE IF "ConnectionError" \in Bases[r.clase]
         THEN [html |-> NoHtml, error |-> <<"Error de conexion", url>>,
               excepcion |-> None]
         ELSE IF "RequestException" \in Bases[r.clase]
         THEN [html |-> NoHtml, error |-> <<"Error inesperado", url>>,
               excepcion |-> None]
         ELSE [html |-> NoHtml, error |-> NoError, excepcion |-> r.clase]
    ELSE IF r.status_code # 200
    THEN [html |-> NoHtml, error |-> <<"HTTP", r.status_code, url>>,
          excepcion |-> None]
    ELSE [html |-> r.text, error |-> NoError, excepcion |-> None]

\* re.sub(r"\s{2,}", " ", texto).strip() on a token sequence
RECURSIVE Colapsar(_)
Colapsar(s) ==
    IF Len(s) < 2 THEN s
    ELSE IF s[1] = " " /\ s[2] = " " THEN Colapsar(Tail(s))
    ELSE <<s[1]>> \o Colapsar(Tail(s))

strip(s) ==
    LET c1 == IF Len(s) > 0 /\ s[1] = " " THEN Tail(s) ELSE s
    IN  IF Len(c1) > 0 /\ c1[Len(c1)] = " " THEN SubSeq(c1, 1, Len(c1) - 1)
        ELSE c1

\* the tags are dropped with what they hold; the rest is joined and
\* normalised
_extraer_texto_limpio(html) == strip(Colapsar(html.visible))

\* the raw HTML the fallback searches: what the page holds, in order
HtmlCrudo(html) == html.script \o html.visible

\* \s* from position i: the position of the first token that is no blank
RECURSIVE SaltarEspacios(_, _)
SaltarEspacios(s, i) ==
    IF i <= Len(s) /\ s[i] = " " THEN SaltarEspacios(s, i + 1) ELSE i

Es(s, i, t) == i <= Len(s) /\ s[i] = t

\* \b after a word character: the text ends or a blank follows
Limite(s, i) == i > Len(s) \/ s[i] = " "

\* fase\s*N at position p
CoincideCorto(s, p, n) ==
    Es(s, p, "fase") /\ Es(s, SaltarEspacios(s, p + 1), n)

\* fase\s+(?:N|roman)\b at position a
CoincideFaseNumero(s, a, n, romano) ==
    /\ Es(s, a, "fase") /\ Es(s, a + 1, " ")
    /\ LET c == SaltarEspacios(s, a + 1)
       IN  \/ Es(s, c, n) /\ Limite(s, c + 1)
           \/ /\ \A k \in 1..Len(romano) : Es(s, c + k - 1, romano[k])
              /\ Limite(s, c + Len(romano))

\* contingencia\s+(?:ambiental\s+)?fase\s+(?:N|roman)\b at position p
CoincideLargo(s, p, n, romano) ==
    /\ Es(s, p, "contingencia") /\ Es(s, p + 1, " ")
    /\ LET a == SaltarEspacios(s, p + 1)
       IN  \/ CoincideFaseNumero(s, a, n, romano)
           \/ /\ Es(s, a, "ambiental") /\ Es(s, a + 1, " ")
              /\ CoincideFaseNumero(s, SaltarEspacios(s, a + 1), n, romano)

\* pattern.search(texto): the start of the leftmost match, 0 for no match
Buscar(s, n, romano) ==
    LET inicios == {p \in 1..Len(s) :
                       CoincideCorto(s, p, n) \/ CoincideLargo(s, p, n, romano)}
    IN  IF inicios = {} THEN 0
        ELSE CHOOSE p \in inicios : \A q \in inicios : p <= q

_RE_FASE_2(s) == Buscar(s, "2", <<"i", "i">>)
_RE_FASE_1(s) == Buscar(s, "1", <<"i">>)

\* the snippet is the text around the match
_extraer_snippet(s, match) == <<"snippet", match>>

_detectar_fase_fase1_primero(s) ==
    IF _RE_FASE_1(s) # 0
    THEN [fase |-> "Fase 1", detalle |-> _extraer_snippet(s, _RE_FASE_1(s))]
    ELSE IF _RE_FASE_2(s) # 0
    THEN [fase |-> "Fase 2", detalle |-> _extraer_snippet(s, _RE_FASE_2(s))]
    ELSE [fase |-> None, detalle |-> <<"Sin contingencia activa">>]

_detectar_fase(s) ==
    IF _RE_FASE_2(s) # 0
    THEN [fase |-> "Fase 2", detalle |-> _extraer_snippet(s, _RE_FASE_2(s))]
    ELSE IF _RE_FASE_1(s) # 0
    THEN [fase |-> "Fase 1", detalle |-> _extraer_snippet(s, _RE_FASE_1(s))]
    ELSE [fase |-> None, detalle |-> <<"Sin contingencia activa">>]

\* _mapa.get(fase, NivelContingencia.NINGUNA)
fase_a_nivel(fase) ==
    CASE fase = "Fase 1" -> FASE_1
      [] fase = "Fase 2" -> FASE_2
      [] OTHER -> NINGUNA

(***************************************************************************)
(* SpecEvaluar: one call of evaluar_circulacion.  The arguments are drawn  *)
(* from the valid domain and from values just outside it.                  *)
(***************************************************************************)
Digitos == (0 - DigitoFuera)..(9 + DigitoFuera)
Hologramas == Holograma \cup {"3", ""}

NoConfig == [tipo |-> "None"]

\* main is not running
MainEnReposo ==
    /\ main_pc = "inactivo"
    /\ entorno = [tipo |-> "None"]
    /\ config = NoConfig
    /\ hoy = [year |-> 2024, month |-> 1, day |-> 1]
    /\ traza = <<>>

ContingenciaEnReposo ==
    /\ url_idx = 0
    /\ errores = <<>>
    /\ respuesta = [tipo |-> "pendiente"]
    /\ texto = <<>>
    /\ consultas = <<>>
    /\ resultado_contingencia = [tipo |-> "pendiente"]

InitEvaluar ==
    /\ ultimo_digito \in Digitos
    /\ holograma \in Hologramas
    /\ nivel_contingencia \in NivelContingencia
    /\ fecha \in Fechas
    /\ resultado = [tipo |-> "pendiente"]
    /\ pc = "evaluar_circulacion"
    /\ ContingenciaEnReposo
    /\ MainEnReposo

\* the call returns a ResultadoCirculacion or raises ValueError
Evaluar ==
    /\ pc = "evaluar_circulacion"
    /\ resultado' = evaluar_circulacion(ultimo_digito, holograma,
                                        nivel_contingencia, fecha)
    /\ pc' = IF resultado'.tipo = "ValueError" THEN "excepcion" ELSE "retorno"
    /\ UNCHANGED <<ultimo_digito, holograma, nivel_contingencia, fecha>>
    /\ UNCHANGED varsContingencia
    /\ UNCHANGED varsMain

NextEvaluar == Evaluar

SpecEvaluar == InitEvaluar /\ [][NextEvaluar]_vars

(***************************************************************************)
(* SpecContingencia: one run of verificar_contingencia, whose "fase" is    *)
(* then converted by fase_a_nivel as main does.  respuesta, texto and      *)
(* consultas keep what the run fetched and examined; url_idx and errores   *)
(* are locals that end with the call.                                      *)
(***************************************************************************)
EvaluarEnReposo ==
    /\ ultimo_digito = 0
    /\ holograma = CERO
    /\ fecha = [year |-> 2024, month |-> 1, day |-> 1]
    /\ resultado = [tipo |-> "pendiente"]

InitContingencia ==
    /\ EvaluarEnReposo
    /\ nivel_contingencia = None
    /\ pc = "verificar_contingencia"
    /\ url_idx = 1
    /\ errores = <<>>
    /\ respuesta = [tipo |-> "pendiente"]
    /\ texto = <<>>
    /\ consultas = <<>>
    /\ resultado_contingencia = [tipo |-> "pendiente"]
    /\ MainEnReposo

ConsultarCon_sigue_sin_fase(r) ==
    LET url == CAME_URLS[url_idx]
        f == _fetch_html(url, r)
    IN  /\ respuesta' = r
        /\ IF f.excepcion # None
           THEN /\ pc' = "excepcion"
                /\ consultas' = Append(consultas, <<url_idx, FALSE>>)
                /\ UNCHANGED <<url_idx, errores, texto, resultado_contingencia>>
           ELSE IF f.error # NoError \/ f.html = NoHtml
           THEN /\ errores' = Append(errores,
                                 IF f.error # NoError THEN f.error
                                 ELSE <<"Respuesta vacia", url>>)
                /\ url_idx' = url_idx + 1
                /\ consultas' = Append(consultas, <<url_idx, FALSE>>)
                /\ UNCHANGED <<pc, texto, resultado_contingencia>>
           ELSE LET limpio == _extraer_texto_limpio(f.html)
                    examinado == IF limpio = <<>> THEN HtmlCrudo(f.html)
                                 ELSE limpio
                    d == _detectar_fase(examinado)
                IN  IF d.fase = None
                    THEN /\ texto' = examinado
                         /\ errores' = Append(errores, <<"Sin fase", url>>)
                         /\ url_idx' = url_idx + 1
                         /\ consultas' = Append(consultas, <<url_idx, TRUE>>)
                         /\ UNCHANGED <<pc, resultado_contingencia>>
                    ELSE /\ texto' = examinado
                         /\ resultado_contingencia' =
                                [tipo |-> "dict",
                                 hay_contingencia |-> (d.fase # None),
                                 fase |-> d.fase,
                                 detalle |-> d.detalle]
                         /\ consultas' = Append(consultas, <<url_idx, TRUE>>)
                         /\ url_idx' = 0
                         /\ errores' = <<>>
                         /\ pc' = "fase_a_nivel"

\* one iteration of "for url in CAME_URLS": fetch, then either note the
\* error and go on to the next URL, or examine the page and return
ConsultarCon(r) ==
    LET url == CAME_URLS[url_idx]
        f == _fetch_html(url, r)
    IN  /\ respuesta' = r
        /\ IF f.excepcion # None
           THEN /\ pc' = "excepcion"
                /\ consultas' = Append(consultas, <<url_idx, FALSE>>)
                /\ UNCHANGED <<url_idx, errores, texto, resultado_contingencia>>
           ELSE IF f.error # NoError \/ f.html = NoHtml
           THEN /\ errores' = Append(errores,
                                 IF f.error # NoError THEN f.error
                                 ELSE <<"Respuesta vacia", url>>)
                /\ url_idx' = url_idx + 1
                /\ consultas' = Append(consultas, <<url_idx, FALSE>>)
                /\ UNCHANGED <<pc, texto, resultado_contingencia>>
           ELSE LET limpio == _extraer_texto_limpio(f.html)
                    examinado == IF limpio = <<>> THEN HtmlCrudo(f.html)
                                 ELSE limpio
                    d == _detectar_fase(examinado)
                IN  /\ texto' = examinado
                    /\ resultado_contingencia' =
                           [tipo |-> "dict",
                            hay_contingencia |-> (d.fase # None),
                            fase |-> d.fase,
                            detalle |-> d.detalle]
                    /\ consultas' = Append(consultas, <<url_idx, TRUE>>)
                    /\ url_idx' = 0
                    /\ errores' = <<>>
                    /\ pc' = "fase_a_nivel"

Consultar ==
    /\ pc = "verificar_contingencia"
    /\ url_idx <= Len(CAME_URLS)
    /\ \/ \E r \in RespuestasFallidas : ConsultarCon(r)
       \/ \E ls \in 0..MaxHtml : \E lv \in 0..(MaxHtml - ls) :
              \E s \in Textos(ls) : \E v \in Textos(lv) :
                  ConsultarCon(Respuesta200(s, v))
    /\ UNCHANGED <<ultimo_digito, holograma, nivel_contingencia, fecha,
                   resultado>>
    /\ UNCHANGED varsMain

\* the loop ended without a usable response
SinRespuesta ==
    /\ pc = "verificar_contingencia"
    /\ url_idx > Len(CAME_URLS)
    /\ resultado_contingencia' =
           [tipo |-> "dict",
            hay_contingencia |-> FALSE,
            fase |-> None,
            detalle |-> <<"No se pudo consultar el portal de la CAMe", errores>>]
    /\ url_idx' = 0
    /\ errores' = <<>>
    /\ pc' = "fase_a_nivel"
    /\ UNCHANGED <<ultimo_digito, holograma, nivel_contingencia, fecha,
                   resultado, respuesta, texto, consultas>>
    /\ UNCHANGED varsMain

\* main: nivel_contingencia=fase_a_nivel(resultado_contingencia["fase"])
FaseANivel ==
    /\ pc = "fase_a_nivel"
    /\ nivel_contingencia' = fase_a_nivel(resultado_contingencia.fase)
    /\ pc' = "fin"
    /\ UNCHANGED <<ultimo_digito, holograma, fecha, resultado>>
    /\ UNCHANGED varsContingencia
    /\ UNCHANGED varsMain

NextContingencia == Consultar \/ SinRespuesta \/ FaseANivel

SpecContingencia == InitContingencia /\ [][NextContingencia]_vars

(***************************************************************************)
(* main.py: cargar_configuracion, formatear_fecha, _construir_mensaje,     *)
(* and telegram_service.enviar_mensaje.                                    *)
(***************************************************************************)
\* PLACA_ULTIMO_DIGITO as read from the environment: unset or empty, a text
\* int() rejects, or the decimal text of an integer
Placas ==
    {[clase |-> "vacio", valor |-> 0], [clase |-> "no_numerico", valor |-> 0]}
        \cup {[clase |-> "entero", valor |-> n] : n \in Digitos}

\* the environment variables; "" stands for unset or empty, None for unset
Entornos ==
    [TELEGRAM_BOT_TOKEN : {"", "123:abc"},
     TELEGRAM_CHAT_ID : {"", "42"},
     PLACA_ULTIMO_DIGITO : Placas,
     HOLOGRAMA : Hologramas,
     NOTIFICAR_SOLO_SI_NO_CIRCULA : {None, "TRUE", "false"}]

\* str.lower() on the values of the model
lower(t) == IF t = "TRUE" THEN "true" ELSE t

\* the errores list of cargar_configuracion
ErroresDeConfiguracion(env) ==
    LET falta(var, valor) ==
            IF valor = "" THEN <<<<var, "no esta definida">>>> ELSE <<>>
        placa == env.PLACA_ULTIMO_DIGITO
    IN  falta("TELEGRAM_BOT_TOKEN", env.TELEGRAM_BOT_TOKEN)
            \o falta("TELEGRAM_CHAT_ID", env.TELEGRAM_CHAT_ID)
            \o (IF placa.clase = "vacio"
                THEN <<<<"PLACA_ULTIMO_DIGITO", "no esta definida">>>>
                ELSE <<>>)
            \o falta("HOLOGRAMA", env.HOLOGRAMA)
            \o (IF placa.clase = "no_numerico"
                THEN <<<<"PLACA_ULTIMO_DIGITO", "debe ser numerico">>>>
                ELSE IF placa.clase = "entero" /\ placa.valor \notin 0..9
                THEN <<<<"PLACA_ULTIMO_DIGITO", "debe ser entre 0 y 9">>>>
                ELSE <<>>)
            \o (IF env.HOLOGRAMA # "" /\ env.HOLOGRAMA \notin {"00", "0", "1", "2"}
                THEN <<<<"HOLOGRAMA", "debe ser 00, 0, 1 o 2">>>>
                ELSE <<>>)

\* the configuration dict, or sys.exit(1) when errores is not empty
cargar_configuracion(env) ==
    IF ErroresDeConfiguracion(env) # <<>>
    THEN [tipo |-> "SystemExit", errores |-> ErroresDeConfiguracion(env)]
    ELSE [tipo |-> "config",
          ultimo_digito |-> env.PLACA_ULTIMO_DIGITO.valor,
          holograma |-> env.HOLOGRAMA,
          notificar_solo_no_circula |->
              (lower(IF env.NOTIFICAR_SOLO_SI_NO_CIRCULA = None THEN "true"
                     ELSE env.NOTIFICAR_SOLO_SI_NO_CIRCULA) = "true")]

meses ==
    <<"enero", "febrero", "marzo", "abril", "mayo", "junio", "julio",
      "agosto", "septiembre", "octubre", "noviembre", "diciembre">>

\* "{nombre_dia} {fecha.day} de {nombre_mes} de {fecha.year}"
formatear_fecha(f) ==
    <<NOMBRES_DIA[isoweekday(f)], f.day, meses[f.month], f.year>>

_construir_mensaje_circula_al_reves(fecha_str, hay_contingencia, fase, puede_circular, razon) ==
    [fecha |-> fecha_str,
     contingencia |-> IF hay_contingencia /\ fase # None /\ fase # ""
                      THEN <<"Si", fase>> ELSE <<"No">>,
     tu_auto |-> IF puede_circular THEN "No circula" ELSE "Circula",
     motivo |-> razon]

\* the four lines of the message
_construir_mensaje(fecha_str, hay_contingencia, fase, puede_circular, razon) ==
    [fecha |-> fecha_str,
     contingencia |-> IF hay_contingencia /\ fase # None /\ fase # ""
                      THEN <<"Si", fase>> ELSE <<"No">>,
     tu_auto |-> IF puede_circular THEN "Circula" ELSE "No circula",
     motivo |-> razon]

debe_notificar_al_reves(cfg, res) ==
    IF cfg.notificar_solo_no_circula THEN res.puede_circular ELSE TRUE

\* not resultado_circulacion.puede_circular if notificar_solo_no_circula
\* else True
debe_notificar(cfg, res) ==
    IF cfg.notificar_solo_no_circula THEN ~res.puede_circular ELSE TRUE

\* what requests.post and the Telegram API can do with the message
Envios == {"ok", "Timeout", "ConnectionError", "HTTPError"}

\* enviar_mensaje: KeyError before any request when a variable is missing,
\* otherwise the request is made and its failure is raised again
enviar_mensaje(env, mensaje, envio) ==
    IF env.TELEGRAM_BOT_TOKEN = "" \/ env.TELEGRAM_CHAT_ID = ""
    THEN [post |-> FALSE, excepcion |-> "KeyError"]
    ELSE [post |-> TRUE, excepcion |-> IF envio = "ok" THEN None ELSE envio]

(***************************************************************************)
(* Spec: one run of main.  The resolver and the engine run as in the two   *)
(* specifications above; the pages the portal answers with are drawn from  *)
(* a few that cover the three phases.                                      *)
(***************************************************************************)
Hoy == {f \in Fechas : toordinal(f) - toordinal([year |-> 2024, month |-> 1,
                                                 day |-> 1]) < DiasDeHoy}

RespuestasDeMuestra ==
    {[tipo |-> "raise", clase |-> "Timeout"],
     [tipo |-> "Response", status_code |-> 404, text |-> NoHtml],
     Respuesta200(<<>>, <<"x">>),
     Respuesta200(<<>>, <<"fase", " ", "1">>),
     Respuesta200(<<"fase", "2">>, <<" ">>),
     Respuesta200(<<>>, <<"fase", "1", "fase", "2">>)}

Init ==
    /\ EvaluarEnReposo
    /\ nivel_contingencia = None
    /\ pc = "main"
    /\ ContingenciaEnReposo
    /\ main_pc = "cargar_configuracion"
    /\ entorno \in Entornos
    /\ config = NoConfig
    /\ hoy \in Hoy
    /\ traza = <<>>

\* config = cargar_configuracion()
MainCargarConfiguracion ==
    /\ main_pc = "cargar_configuracion"
    /\ LET c == cargar_configuracion(entorno)
       IN  IF c.tipo = "SystemExit"
           THEN main_pc' = "SystemExit" /\ config' = NoConfig
           ELSE main_pc' = "fecha" /\ config' = c
    /\ UNCHANGED <<entorno, hoy, traza, pc>>
    /\ UNCHANGED varsEvaluar
    /\ UNCHANGED varsContingencia

\* hoy = date.today(); on Sunday main returns
MainFecha ==
    /\ main_pc = "fecha"
    /\ main_pc' = IF isoweekday(hoy) = 7 THEN "fin" ELSE "verificar_contingencia"
    /\ UNCHANGED <<entorno, config, hoy, traza, pc>>
    /\ UNCHANGED varsEvaluar
    /\ UNCHANGED varsContingencia

\* resultado_contingencia = verificar_contingencia(): the call
MainVerificarContingencia ==
    /\ main_pc = "verificar_contingencia"
    /\ pc = "main"
    /\ pc' = "verificar_contingencia"
    /\ url_idx' = 1
    /\ errores' = <<>>
    /\ traza' = Append(traza, <<"verificar_contingencia">>)
    /\ main_pc' = "evaluar_circulacion"
    /\ UNCHANGED <<entorno, config, hoy>>
    /\ UNCHANGED <<respuesta, texto, consultas, resultado_contingencia>>
    /\ UNCHANGED varsEvaluar

\* the loop body of verificar_contingencia, when main runs it
ConsultarEnMain ==
    /\ main_pc # "inactivo"
    /\ pc = "verificar_contingencia"
    /\ url_idx <= Len(CAME_URLS)
    /\ \E r \in RespuestasDeMuestra : ConsultarCon(r)
    /\ UNCHANGED <<ultimo_digito, holograma, nivel_contingencia, fecha,
                   resultado>>
    /\ UNCHANGED varsMain

\* resultado_circulacion = evaluar_circulacion(...): the call, once the
\* resolver returned and fase_a_nivel gave the level
MainEvaluarCirculacion ==
    /\ main_pc = "evaluar_circulacion"
    /\ pc \in {"fin", "excepcion"}
    /\ IF pc = "excepcion"
       THEN /\ main_pc' = "excepcion"
            /\ UNCHANGED <<pc, traza, ultimo_digito, holograma, fecha>>
       ELSE /\ ultimo_digito' = config.ultimo_digito
            /\ holograma' = config.holograma
            /\ fecha' = hoy
            /\ pc' = "evaluar_circulacion"
            /\ traza' = Append(traza, <<"evaluar_circulacion",
                                        config.ultimo_digito, config.holograma,
                                        nivel_contingencia, hoy>>)
            /\ main_pc' = "debe_notificar"
    /\ UNCHANGED <<nivel_contingencia, resultado, entorno, config, hoy>>
    /\ UNCHANGED varsContingencia

\* debe_notificar, and the return when nothing is to be sent
MainDebeNotificar ==
    /\ main_pc = "debe_notificar"
    /\ pc \in {"retorno", "excepcion"}
    /\ main_pc' = IF pc = "excepcion" THEN "excepcion"
                  ELSE IF debe_notificar(config, resultado)
                  THEN "enviar_mensaje" ELSE "fin"
    /\ UNCHANGED <<entorno, config, hoy, traza, pc>>
    /\ UNCHANGED varsEvaluar
    /\ UNCHANGED varsContingencia

\* mensaje = _construir_mensaje(...); enviar_mensaje(mensaje)
MainEnviar ==
    /\ main_pc = "enviar_mensaje"
    /\ \E envio \in Envios :
         LET mensaje == _construir_mensaje(formatear_fecha(hoy),
                            resultado_contingencia.hay_contingencia,
                            resultado_contingencia.fase,
                            resultado.puede_circular, resultado.razon)
             r == enviar_mensaje(entorno, mensaje, envio)
         IN  /\ traza' = Append(traza, <<"enviar_mensaje", mensaje, r.post>>)
             /\ main_pc' = IF r.excepcion = None THEN "fin" ELSE "excepcion"
    /\ UNCHANGED <<entorno, config, hoy, pc>>
    /\ UNCHANGED varsEvaluar
    /\ UNCHANGED varsContingencia

Next ==
    \/ MainCargarConfiguracion
    \/ MainFecha
    \/ MainVerificarContingencia
    \/ ConsultarEnMain
    \/ SinRespuesta
    \/ FaseANivel
    \/ MainEvaluarCirculacion
    \/ Evaluar
    \/ MainDebeNotificar
    \/ MainEnviar

Spec == Init /\ [][Next]_vars

(***************************************************************************)
(* Properties of evaluar_circulacion, checked under SpecEvaluar.           *)
(***************************************************************************)
Retorno == pc = "retorno" /\ resultado.tipo = "ResultadoCirculacion"
DiaIso == isoweekday(fecha)
Restringidos == {UNO, DOS}
Exentos == {CERO_CERO, CERO}

\* the weekly table as the specification states it
SemanalEsperada(dia) ==
    CASE dia = 1 -> {5, 6}
      [] dia = 2 -> {7, 8}
      [] dia = 3 -> {3, 4}
      [] dia = 4 -> {1, 2}
      [] dia = 5 -> {9, 0}
      [] OTHER -> {}

\* the Saturday rotation as the specification states it
SabadoEsperado(f) ==
    IF ((((f.day - 1) \div 7) + 1) % 2) = 1 THEN {5, 6, 7, 8}
    ELSE {0, 1, 2, 3, 4, 9}

\* the Phase 2 override of exempt stickers as the specification states it
Fase2ExentoEsperada(dia) ==
    CASE dia \in {1, 3, 5} -> {0, 1, 2, 3, 4}
      [] dia \in {2, 4} -> {5, 6, 7, 8, 9}
      [] OTHER -> {}

\* C1: for stickers 1 and 2, restriccion_normal is true exactly when the
\* weekday is Monday..Friday and the digit is in that weekday's set, or the
\* day is a Saturday, the sticker is 2 and the digit is in the Saturday
\* rotation set of the date; it is false otherwise, every Sunday included.
C1_BaseRestriction ==
    (Retorno /\ holograma \in Restringidos) =>
        (resultado.restriccion_normal <=>
            \/ (DiaIso \in 1..5 /\ ultimo_digito \in SemanalEsperada(DiaIso))
            \/ (DiaIso = 6 /\ holograma = DOS
                    /\ ultimo_digito \in SabadoEsperado(fecha)))

\* digit 5, sticker 1, no contingency, a Monday: restricted by the base program
C1_Witness ==
    /\ Retorno /\ holograma = UNO /\ ultimo_digito = 5 /\ DiaIso = 1
    /\ nivel_contingencia = NINGUNA
    /\ resultado.restriccion_normal /\ ~resultado.puede_circular

\* C2: for stickers 1 and 2 on Monday..Friday under Fase 2 the result is
\* puede_circular = FALSE with restriccion_contingencia = TRUE, whatever the
\* digit.
C2_Phase2Blanket ==
    (Retorno /\ holograma \in Restringidos /\ nivel_contingencia = FASE_2
        /\ DiaIso \in 1..5) =>
        (~resultado.puede_circular /\ resultado.restriccion_contingencia)

\* a Friday under Fase 2 with a digit the base program leaves free that day
C2_Witness ==
    /\ Retorno /\ holograma = UNO /\ nivel_contingencia = FASE_2
    /\ DiaIso = 5 /\ ultimo_digito = 5
    /\ ~resultado.restriccion_normal /\ ~resultado.puede_circular

\* C3: for stickers 1 and 2 under Fase 1, restriccion_contingencia equals
\* restriccion_normal, and puede_circular equals what the same digit, sticker
\* and date give with no contingency.
C3_Phase1Reinforces ==
    (Retorno /\ holograma \in Restringidos /\ nivel_contingencia = FASE_1) =>
        /\ resultado.restriccion_contingencia = resultado.restriccion_normal
        /\ resultado.puede_circular =
               evaluar_circulacion(ultimo_digito, holograma, NINGUNA,
                                   fecha).puede_circular

\* Fase 1 on a weekday whose digits do not include this one: free to drive
C3_Witness ==
    /\ Retorno /\ holograma = DOS /\ nivel_contingencia = FASE_1
    /\ DiaIso = 2 /\ ultimo_digito = 5
    /\ ~resultado.restriccion_contingencia /\ resultado.puede_circular

\* C4: for stickers 00 and 0, puede_circular is FALSE exactly when the level
\* is Fase 2, the weekday is Monday..Friday and the digit is in that weekday's
\* override set; then restriccion_contingencia is TRUE and restriccion_normal
\* FALSE.  In every other case puede_circular is TRUE with both flags FALSE.
C4_ExemptRule ==
    (Retorno /\ holograma \in Exentos) =>
        LET restringe == /\ nivel_contingencia = FASE_2
                         /\ DiaIso \in 1..5
                         /\ ultimo_digito \in Fase2ExentoEsperada(DiaIso)
        IN  /\ resultado.puede_circular = ~restringe
            /\ resultado.restriccion_contingencia = restringe
            /\ resultado.restriccion_normal = FALSE

\* digit 0, sticker 00, Fase 2, a Monday: the exemption is lifted
C4_Witness ==
    /\ Retorno /\ holograma = CERO_CERO /\ nivel_contingencia = FASE_2
    /\ DiaIso = 1 /\ ultimo_digito = 0
    /\ ~resultado.puede_circular /\ resultado.restriccion_contingencia

\* C5: every valid input whose date is a Sunday gives puede_circular = TRUE
\* with restriccion_normal = FALSE and restriccion_contingencia = FALSE.
C5_Sunday ==
    (pc # "evaluar_circulacion" /\ ultimo_digito \in 0..9
        /\ holograma \in Holograma /\ DiaIso = 7) =>
        /\ Retorno
        /\ resultado.puede_circular
        /\ ~resultado.restriccion_normal
        /\ ~resultado.restriccion_contingencia

\* a Sunday under Fase 2 for a restricted sticker
C5_Witness ==
    /\ Retorno /\ DiaIso = 7 /\ holograma = UNO /\ nivel_contingencia = FASE_2
    /\ resultado.puede_circular

\* the Saturdays among the dates of the model
Sabados == {f \in Fechas : isoweekday(f) = 6}
SemanaImpar(f) == f.day \in (1..7) \cup (15..21) \cup (29..31)

\* C6: the Saturday restriction of sticker 2 depends on the day of the month
\* alone: days 1..7, 15..21 and 29..31 restrict 5,6,7,8 and days 8..14 and
\* 22..28 restrict 0,1,2,3,4,9; the two sets are complementary, so of two
\* Saturdays of different week parity every digit is restricted on exactly
\* one, and two Saturdays of the same parity restrict the same digits.
C6_SaturdayRotation ==
    (Retorno /\ holograma = DOS /\ DiaIso = 6) =>
        /\ resultado.restriccion_normal <=>
               IF SemanaImpar(fecha) THEN ultimo_digito \in {5, 6, 7, 8}
               ELSE ultimo_digito \in {0, 1, 2, 3, 4, 9}
        /\ \A g \in Sabados :
               LET otro == evaluar_circulacion(ultimo_digito, holograma,
                                               nivel_contingencia, g)
               IN  (otro.restriccion_normal = resultado.restriccion_normal)
                       <=> (SemanaImpar(g) <=> SemanaImpar(fecha))

\* a Saturday in the fifth week of its month: digit 7 is restricted
C6_Witness ==
    /\ Retorno /\ holograma = DOS /\ DiaIso = 6 /\ fecha.day >= 29
    /\ ultimo_digito = 7 /\ nivel_contingencia = NINGUNA
    /\ resultado.restriccion_normal /\ ~resultado.puede_circular

\* C7: sticker 1 on a Saturday may drive, for every digit and every level.
C7_Restricted1Saturday ==
    (Retorno /\ holograma = UNO /\ DiaIso = 6) => resultado.puede_circular

\* sticker 1, a Saturday of the first week, digit 7, Fase 2
C7_Witness ==
    /\ Retorno /\ holograma = UNO /\ DiaIso = 6 /\ fecha.day <= 7
    /\ ultimo_digito = 7 /\ nivel_contingencia = FASE_2
    /\ resultado.puede_circular

\* C8: the call ends in ValueError, returning no result, exactly when the
\* digit is outside 0..9 or the sticker is none of the four; for every other
\* input it returns a result.
C8_Validation ==
    (pc # "evaluar_circulacion") =>
        LET invalido == ultimo_digito \notin 0..9 \/ holograma \notin Holograma
        IN  /\ (pc = "excepcion" /\ resultado.tipo = "ValueError") <=> invalido
            /\ Retorno <=> ~invalido

\* digit 10 with a valid sticker is rejected
C8_Witness ==
    /\ pc = "excepcion" /\ resultado.tipo = "ValueError"
    /\ ultimo_digito = 10 /\ holograma = UNO

CitaProgramaRegular(razon) == En(CausaRegular, razon.causas)
CitaContingencia(razon, nivel) ==
    En(<<"contingencia ambiental", NivelEnTexto(nivel)>>, razon.causas)

\* C9: for a restricted-sticker result with puede_circular = FALSE the reason
\* cites the regular program exactly when restriccion_normal is TRUE and the
\* contingency with its level exactly when restriccion_contingencia is TRUE;
\* with puede_circular = TRUE the reason is the no-restriction message.
C9_ReasonListsEveryCause ==
    (Retorno /\ holograma \in Restringidos) =>
        IF ~resultado.puede_circular
        THEN /\ CitaProgramaRegular(resultado.razon)
                    <=> resultado.restriccion_normal
             /\ CitaContingencia(resultado.razon, nivel_contingencia)
                    <=> resultado.restriccion_contingencia
        ELSE resultado.razon =
                 [plantilla |-> "puede circular sin restricciones",
                  causas |-> <<>>]

(***************************************************************************)
(* Properties of the contingency resolver, checked under SpecContingencia. *)
(***************************************************************************)
TodasFallaron ==
    /\ Len(consultas) = Len(CAME_URLS)
    /\ \A k \in 1..Len(consultas) : consultas[k] = <<k, FALSE>>

MencionaFase(s) == _RE_FASE_1(s) # 0 \/ _RE_FASE_2(s) # 0

\* C10: verificar_contingencia followed by fase_a_nivel never ends in an
\* exception and always yields one of ninguna, fase_1, fase_2; when every URL
\* failed to fetch, or the text examined mentions no phase, it yields ninguna.
C10_ResolverDegrades ==
    /\ pc # "excepcion"
    /\ pc = "fin" =>
         /\ nivel_contingencia \in NivelContingencia
         /\ TodasFallaron => nivel_contingencia = NINGUNA
         /\ (~TodasFallaron /\ ~MencionaFase(texto)) =>
                nivel_contingencia = NINGUNA

\* the first URL timed out and the second answered with a status other than
\* 200: the level is ninguna
C10_Witness ==
    /\ pc = "fin" /\ TodasFallaron
    /\ resultado_contingencia.detalle[2][1][1] = "Timeout"
    /\ resultado_contingencia.detalle[2][2][1] = "HTTP"
    /\ nivel_contingencia = NINGUNA

\* the page of the one fetch that succeeded, as _detectar_fase would read it
UnaExitosa == Len(consultas) > 0 /\ consultas[Len(consultas)][2]

\* C12: when the text examined matches the Fase 2 pattern the resolver yields
\* fase_2, also when the Fase 1 pattern matches too; it yields fase_1 exactly
\* when the Fase 1 pattern matches and the Fase 2 pattern does not.
C12_SeverityOrder ==
    (pc = "fin" /\ UnaExitosa) =>
        /\ (_RE_FASE_2(texto) # 0) <=> nivel_contingencia = FASE_2
        /\ (_RE_FASE_1(texto) # 0 /\ _RE_FASE_2(texto) = 0)
               <=> nivel_contingencia = FASE_1

\* a text that mentions Fase 1 before Fase 2: the level is fase_2
C12_Witness ==
    /\ pc = "fin" /\ UnaExitosa
    /\ _RE_FASE_1(texto) # 0 /\ _RE_FASE_2(texto) # 0
    /\ _RE_FASE_1(texto) < _RE_FASE_2(texto)
    /\ nivel_contingencia = FASE_2

\* C13: the URLs are fetched in list order, a URL is fetched only when every
\* earlier fetch failed, nothing is fetched after a fetch that succeeded, and
\* the result is the phase of the page that succeeded, no contingency when
\* that page mentions no phase.
C13_FirstSuccessDecides ==
    /\ Len(consultas) <= Len(CAME_URLS)
    /\ \A k \in 1..Len(consultas) :
           /\ consultas[k][1] = k
           /\ k < Len(consultas) => ~consultas[k][2]
    /\ UnaExitosa =>
           /\ pc \in {"fase_a_nivel", "fin"}
           /\ respuesta.tipo = "Response" /\ respuesta.status_code = 200
           /\ resultado_contingencia.fase =
                  (IF _RE_FASE_2(texto) # 0 THEN "Fase 2"
                   ELSE IF _RE_FASE_1(texto) # 0 THEN "Fase 1" ELSE None)
           /\ resultado_contingencia.hay_contingencia = MencionaFase(texto)
    /\ (pc \in {"fase_a_nivel", "fin"} /\ ~UnaExitosa) => TodasFallaron

\* the first URL answers with a page that mentions no phase: the run ends with
\* no contingency and the second URL is never fetched
C13_Witness ==
    /\ pc = "fin" /\ consultas = <<<<1, TRUE>>>>
    /\ ~MencionaFase(texto) /\ Len(texto) > 0
    /\ ~resultado_contingencia.hay_contingencia
    /\ nivel_contingencia = NINGUNA

\* C15: every result, of the exempt and of the restricted branch, has
\* puede_circular = ~(restriccion_normal \/ restriccion_contingencia) and
\* carries the contingency level the call was given.
C15_FlagsDecide ==
    Retorno =>
        /\ resultado.puede_circular =
               ~(resultado.restriccion_normal
                    \/ resultado.restriccion_contingencia)
        /\ resultado.nivel_contingencia = nivel_contingencia

\* an exempt sticker restricted under Fase 2: the flags say why
C15_Witness ==
    /\ Retorno /\ holograma = CERO /\ nivel_contingencia = FASE_2
    /\ ~resultado.puede_circular /\ resultado.restriccion_contingencia
    /\ resultado.nivel_contingencia = FASE_2

Severidad(nivel) ==
    CASE nivel = NINGUNA -> 0 [] nivel = FASE_1 -> 1 [] nivel = FASE_2 -> 2

\* C16: for every digit, sticker and date, a result with puede_circular =
\* FALSE at one level stays FALSE at every level at least as severe, in the
\* order ninguna < fase_1 < fase_2.
C16_LevelMonotone ==
    (Retorno /\ ~resultado.puede_circular) =>
        \A b \in NivelContingencia :
            Severidad(nivel_contingencia) <= Severidad(b) =>
                ~evaluar_circulacion(ultimo_digito, holograma, b,
                                     fecha).puede_circular

\* sticker 2 restricted on a Saturday with no contingency: raising the level
\* keeps it restricted, though Fase 2 adds nothing on Saturday
C16_Witness ==
    /\ Retorno /\ holograma = DOS /\ DiaIso = 6
    /\ nivel_contingencia = NINGUNA /\ ~resultado.puede_circular
    /\ ~evaluar_circulacion(ultimo_digito, holograma, FASE_2,
                            fecha).restriccion_contingencia

(***************************************************************************)
(* Properties of main, checked under Spec.  traza is the sequence of the   *)
(* calls main has made to the resolver, the engine and the channel.        *)
(***************************************************************************)
Veces(paso) == Cardinality({i \in 1..Len(traza) : traza[i][1] = paso})

NoEsDomingo == isoweekday(hoy) # 7

\* main returned, or enviar_mensaje was called
MainTermino == main_pc = "fin" \/ Veces("enviar_mensaje") > 0

\* the level that the phase the resolver returned stands for
NivelDe(fase) ==
    IF fase = "Fase 2" THEN FASE_2 ELSE IF fase = "Fase 1" THEN FASE_1
    ELSE NINGUNA

\* C11: in a run of main on a date that is not a Sunday the calls are, in
\* this order, verificar_contingencia, then evaluar_circulacion exactly once
\* with the level of the phase the resolver returned, the configured digit
\* and sticker and today's date, then at most one enviar_mensaje whose
\* message carries the decision and the reason of that evaluation; no
\* message is sent before the resolver was consulted and the engine returned.
C11_StepOrder ==
    /\ Len(traza) <= 3
    /\ Len(traza) >= 1 =>
           /\ traza[1] = <<"verificar_contingencia">>
           /\ NoEsDomingo
    /\ Len(traza) >= 2 =>
           /\ resultado_contingencia.tipo = "dict"
           /\ Len(consultas) > 0
           /\ traza[2] = <<"evaluar_circulacion", config.ultimo_digito,
                           config.holograma,
                           NivelDe(resultado_contingencia.fase), hoy>>
    /\ Len(traza) = 3 =>
           /\ traza[3][1] = "enviar_mensaje"
           /\ resultado = evaluar_circulacion(traza[2][2], traza[2][3],
                                              traza[2][4], traza[2][5])
           /\ resultado.tipo = "ResultadoCirculacion"
           /\ traza[3][2].tu_auto = (IF resultado.puede_circular
                                     THEN "Circula" ELSE "No circula")
           /\ traza[3][2].motivo = resultado.razon
    /\ (MainTermino /\ NoEsDomingo) =>
           /\ Veces("verificar_contingencia") = 1
           /\ Veces("evaluar_circulacion") = 1

\* a Fase 2 run on a weekday that ended with the message "No circula" sent
C11_Witness ==
    /\ main_pc = "fin" /\ Len(traza) = 3
    /\ traza[2][4] = FASE_2
    /\ traza[3][2].tu_auto = "No circula" /\ traza[3][3]
    /\ ~resultado.puede_circular

\* the variables hold a configuration that cargar_configuracion accepts
ConfiguracionValida ==
    /\ entorno.TELEGRAM_BOT_TOKEN # "" /\ entorno.TELEGRAM_CHAT_ID # ""
    /\ entorno.PLACA_ULTIMO_DIGITO.clase = "entero"
    /\ entorno.PLACA_ULTIMO_DIGITO.valor \in 0..9
    /\ entorno.HOLOGRAMA \in Holograma

\* NOTIFICAR_SOLO_SI_NO_CIRCULA reads as true, in any letter case, or is unset
SoloSiNoCircula ==
    entorno.NOTIFICAR_SOLO_SI_NO_CIRCULA \in {None, "true", "TRUE"}

EvaluacionNoCircula ==
    resultado.tipo = "ResultadoCirculacion" /\ ~resultado.puede_circular

\* C14: in a run of main with a valid configuration that has ended, a send
\* was attempted exactly when today is not a Sunday and either the setting
\* NOTIFICAR_SOLO_SI_NO_CIRCULA is false or the evaluation returned
\* puede_circular = FALSE; no run attempts two sends; and a run on a Sunday
\* ends with neither the resolver consulted nor the engine evaluated.
C14_SendIff ==
    /\ Veces("enviar_mensaje") <= 1
    /\ (ConfiguracionValida /\ main_pc \in {"fin", "excepcion"}) =>
           /\ (Veces("enviar_mensaje") = 1) <=>
                  (NoEsDomingo /\ (~SoloSiNoCircula \/ EvaluacionNoCircula))
           /\ ~NoEsDomingo =>
                  /\ traza = <<>>
                  /\ consultas = <<>>
                  /\ resultado_contingencia.tipo = "pendiente"
                  /\ resultado.tipo = "pendiente"

\* a weekday run with the setting unset whose car may drive: main returned
\* after the evaluation and sent nothing
C14_Witness ==
    /\ ConfiguracionValida /\ main_pc = "fin" /\ NoEsDomingo
    /\ entorno.NOTIFICAR_SOLO_SI_NO_CIRCULA = None
    /\ resultado.tipo = "ResultadoCirculacion" /\ resultado.puede_circular
    /\ Veces("enviar_mensaje") = 0 /\ Veces("evaluar_circulacion") = 1
=============================================================================
